---- MODULE Spec2Model ----
(***************************************************************************)
(* EducatorAI: the generation service (models/ai_service.py), the route    *)
(* handler that calls it (api/routes.py), the request schema               *)
(* (api/models.py) and the application lifespan (main.py).                 *)
(*                                                                         *)
(* Threads of control:                                                     *)
(*   - the event loop: one thread, runs coroutines between their awaits    *)
(*     (request handlers, initialize, cleanup).  cleanup() has no await:   *)
(*     executor.shutdown(wait=True) blocks the loop thread itself, so no   *)
(*     other coroutine runs until cleanup returns;                         *)
(*   - the two ThreadPoolExecutor workers, which run _load_model and       *)
(*     _generate_text_sync.                                                *)
(*                                                                         *)
(* Three specifications:                                                   *)
(*   Spec          one AIService driven by a caller that issues            *)
(*                 initialize() and cleanup() one after the other in any   *)
(*                 order, with concurrent generation requests;             *)
(*   LifespanSpec  the same service driven by main.lifespan;               *)
(*   RequestSpec   one request through GenerateRequest validation and      *)
(*                 generate_text's parameter resolution.                   *)
(***************************************************************************)
EXTENDS Integers, Sequences, FiniteSets, TLC

\* ---------------------------------------------------------------- bounds
NumRequests == 3      \* generation requests in one behaviour
MaxInitialize == 2    \* initialize() calls in one behaviour
MaxCleanup == 2       \* cleanup() calls in one behaviour
MaxPromptLen == 3     \* characters in the prompt of a request body

\* ------------------------------------------------------ program constants
max_workers == 2      \* ThreadPoolExecutor(max_workers=2)

Workers == 1..max_workers
Requests == 1..NumRequests

VARIABLES
    ai_service,        \* main.ai_service: FALSE = None, TRUE = an AIService
    model,             \* self.model:     "None" | "loaded" | "deleted"
    tokenizer,         \* self.tokenizer: "None" | "loaded" | "deleted"
    pipeline,          \* self.pipeline:  "None" | "loaded" | "deleted"
    _ready,            \* self._ready
    executor_shutdown, \* self.executor._shutdown
    work_queue,        \* self.executor._work_queue: 0 = _load_model,
                       \*   r >= 1 = _generate_text_sync of request r
    _lock,             \* self._lock: 0 = free, w = held by worker w
    worker,            \* worker thread -> [pc, item]
    lc,                \* the lifecycle caller: "idle", or the call it is in
    init_future,       \* the future initialize() awaits
    req,               \* request -> [st, entry, future, outcome, after_failure]
    last_init,         \* how the latest initialize() call ended
    last_cleanup,      \* how the latest cleanup() call ended
    n_init,            \* initialize() calls so far
    n_cleanup,         \* cleanup() calls so far
    between,           \* history: a successful initialize() has completed
                       \*   and no cleanup() has completed since
    cleanup_inflight,  \* history: the latest cleanup() was called with
                       \*   generation calls queued or running
    lifespan,          \* main.lifespan position ("off" under Spec)
    rq                 \* RequestSpec: the one request being processed

svc_vars == <<ai_service, model, tokenizer, pipeline, _ready,
              executor_shutdown, work_queue, _lock, worker, lc, init_future,
              req, last_init, last_cleanup, n_init, n_cleanup, between,
              cleanup_inflight>>

vars == <<svc_vars, lifespan, rq>>

\* ------------------------------------------------------------- helpers
Idle == [pc |-> "idle", item |-> 0]

NewRequest == [st |-> "new", entry |-> "none", future |-> "none",
               outcome |-> "none", after_failure |-> FALSE]

\* AIService.is_ready: `self._ready and self.pipeline is not None`.
\* `and` short-circuits; reading a deleted attribute raises AttributeError.
is_ready ==
    IF ~_ready THEN "False"
    ELSE IF pipeline = "deleted" THEN "AttributeError"
    ELSE IF pipeline = "None" THEN "False"
    ELSE "True"

\* The event loop thread is free to run a coroutine: it is not inside
\* cleanup()'s blocking executor.shutdown(wait=True).
LoopFree == lc # "cleanup"

\* GenerateResponse declares every field as `T = Field(description=...)`,
\* with no default.  config.py imports pydantic_settings, which exists for
\* pydantic 2 only, and pydantic 2 treats a field without a default as
\* required, Optional or not: constructing the model without one of them
\* raises ValidationError.
GenerateResponseFields ==
    {"success", "generated_text", "prompt", "context", "content_type",
     "parameters", "error", "processing_time"}

GenerateResponse(supplied) ==
    IF GenerateResponseFields \subseteq supplied THEN "response"
    ELSE "ValidationError"

\* The keyword arguments of the two GenerateResponse(...) calls of
\* generate_content.
SuccessKwargs ==
    {"success", "generated_text", "prompt", "context", "content_type",
     "parameters", "processing_time"}

FailureKwargs ==
    {"success", "error", "prompt", "context", "content_type",
     "processing_time"}

\* generate_content after `await ai_service.generate_text(...)` has returned
\* (fut = "ok") or raised (fut = "raised"): the success response is built
\* inside the try block, the failure response inside `except Exception`,
\* whose own exceptions leave the handler.
generate_content_respond(fut) ==
    IF fut = "ok" /\ GenerateResponse(SuccessKwargs) = "response"
    THEN "success"
    ELSE IF GenerateResponse(FailureKwargs) = "response" THEN "failure"
    ELSE "ValidationError"

\* What the caller of generate_text sees once the awaited call is over.
Outcome(entry, fut) ==
    IF entry = "route" THEN generate_content_respond(fut)
    ELSE IF fut = "ok" THEN "result" ELSE "GenerationFailure"

\* Some generation call has already failed in the pipeline.
SomeFailure == \E q \in Requests : req[q].future = "raised"

\* ------------------------------------------------------------ initial state
SvcInit ==
    /\ ai_service = FALSE
    /\ model = "None"
    /\ tokenizer = "None"
    /\ pipeline = "None"
    /\ _ready = FALSE
    /\ executor_shutdown = FALSE
    /\ work_queue = <<>>
    /\ _lock = 0
    /\ worker = [w \in Workers |-> Idle]
    /\ lc = "idle"
    /\ init_future = "none"
    /\ req = [r \in Requests |-> NewRequest]
    /\ last_init = "none"
    /\ last_cleanup = "none"
    /\ n_init = 0
    /\ n_cleanup = 0
    /\ between = FALSE
    /\ cleanup_inflight = FALSE

NoRequest == [pc |-> "off"]

Init ==
    /\ SvcInit
    /\ lifespan = "off"
    /\ rq = NoRequest

\* ------------------------------------------------------- the worker threads
\* (Variant: workers that stop taking work once shutdown() was called, as
\* after shutdown(cancel_futures=True) without the futures being cancelled.)
WorkerDequeue_not_after_shutdown(w) ==
    /\ ~executor_shutdown
    /\ worker[w].pc = "idle"
    /\ work_queue # <<>>
    /\ worker' = [worker EXCEPT ![w] =
                    [pc |-> IF Head(work_queue) = 0 THEN "load_tokenizer"
                            ELSE "acquire",
                     item |-> Head(work_queue)]]
    /\ work_queue' = Tail(work_queue)
    /\ UNCHANGED <<ai_service, model, tokenizer, pipeline, _ready,
                   executor_shutdown, _lock, lc, init_future, req, last_init,
                   last_cleanup, n_init, n_cleanup, between, cleanup_inflight,
                   lifespan, rq>>

\* A ThreadPoolExecutor worker takes the next work item; items queued before
\* shutdown() are still run.
WorkerDequeue(w) ==
    /\ worker[w].pc = "idle"
    /\ work_queue # <<>>
    /\ worker' = [worker EXCEPT ![w] =
                    [pc |-> IF Head(work_queue) = 0 THEN "load_tokenizer"
                            ELSE "acquire",
                     item |-> Head(work_queue)]]
    /\ work_queue' = Tail(work_queue)
    /\ UNCHANGED <<ai_service, model, tokenizer, pipeline, _ready,
                   executor_shutdown, _lock, lc, init_future, req, last_init,
                   last_cleanup, n_init, n_cleanup, between, cleanup_inflight,
                   lifespan, rq>>

\* _load_model: self.tokenizer = AutoTokenizer.from_pretrained(...)
LoadTokenizer(w) ==
    /\ worker[w].pc = "load_tokenizer"
    /\ tokenizer' = "loaded"
    /\ worker' = [worker EXCEPT ![w].pc = "load_model"]
    /\ UNCHANGED <<ai_service, model, pipeline, _ready, executor_shutdown,
                   work_queue, _lock, lc, init_future, req, last_init,
                   last_cleanup, n_init, n_cleanup, between, cleanup_inflight,
                   lifespan, rq>>

\* _load_model: self.model = AutoModelForCausalLM.from_pretrained(...)
LoadModel(w) ==
    /\ worker[w].pc = "load_model"
    /\ model' = "loaded"
    /\ worker' = [worker EXCEPT ![w].pc = "load_pipeline"]
    /\ UNCHANGED <<ai_service, tokenizer, pipeline, _ready, executor_shutdown,
                   work_queue, _lock, lc, init_future, req, last_init,
                   last_cleanup, n_init, n_cleanup, between, cleanup_inflight,
                   lifespan, rq>>

\* _load_model: self.pipeline = pipeline(...); the work item returns.
CreatePipeline(w) ==
    /\ worker[w].pc = "load_pipeline"
    /\ pipeline' = "loaded"
    /\ worker' = [worker EXCEPT ![w] = Idle]
    /\ init_future' = "ok"
    /\ UNCHANGED <<ai_service, model, tokenizer, _ready, executor_shutdown,
                   work_queue, _lock, lc, req, last_init, last_cleanup,
                   n_init, n_cleanup, between, cleanup_inflight, lifespan, rq>>

\* (Variant: the except clause of _load_model without its `raise`, so that
\* the work item returns normally.)
LoadRaises_swallowed(w) ==
    /\ worker[w].pc \in {"load_tokenizer", "load_model", "load_pipeline"}
    /\ worker' = [worker EXCEPT ![w] = Idle]
    /\ init_future' = "ok"
    /\ UNCHANGED <<ai_service, model, tokenizer, pipeline, _ready,
                   executor_shutdown, work_queue, _lock, lc, req, last_init,
                   last_cleanup, n_init, n_cleanup, between, cleanup_inflight,
                   lifespan, rq>>

\* _load_model: the step the worker is at raises; the attribute it was about
\* to assign keeps its value, the exception is logged, re-raised and stored
\* in the future.
LoadRaises(w) ==
    /\ worker[w].pc \in {"load_tokenizer", "load_model", "load_pipeline"}
    /\ worker' = [worker EXCEPT ![w] = Idle]
    /\ init_future' = "raised"
    /\ UNCHANGED <<ai_service, model, tokenizer, pipeline, _ready,
                   executor_shutdown, work_queue, _lock, lc, req, last_init,
                   last_cleanup, n_init, n_cleanup, between, cleanup_inflight,
                   lifespan, rq>>

\* threading.Lock: acquire() succeeds only while no thread holds the lock.
\* (Variant: a lock that never blocks.)
LockFree_ignored == TRUE

LockFree == _lock = 0

\* _generate_text_sync: `with self._lock:` blocks until the lock is free.
AcquireLock(w) ==
    /\ worker[w].pc = "acquire"
    /\ LockFree
    /\ _lock' = w
    /\ worker' = [worker EXCEPT ![w].pc = "pipeline"]
    /\ UNCHANGED <<ai_service, model, tokenizer, pipeline, _ready,
                   executor_shutdown, work_queue, lc, init_future, req,
                   last_init, last_cleanup, n_init, n_cleanup, between,
                   cleanup_inflight, lifespan, rq>>

\* The end of the `with self._lock:` block: the lock is released on return
\* and on exception alike.
\* (Variant: acquire()/release() without try/finally, the lock stays held
\* when the body raises.)
ReleaseLock_not_on_exception(w, raised) ==
    IF _lock = w /\ ~raised THEN 0 ELSE _lock

ReleaseLock(w, raised) == IF _lock = w THEN 0 ELSE _lock

\* _generate_text_sync: self.pipeline(...) returns, the stripped text is the
\* work item's result.  The call needs self.pipeline and self.tokenizer.
PipelineReturns(w) ==
    /\ worker[w].pc = "pipeline"
    /\ pipeline = "loaded" /\ tokenizer = "loaded"
    /\ _lock' = ReleaseLock(w, FALSE)
    /\ req' = [req EXCEPT ![worker[w].item].future = "ok"]
    /\ worker' = [worker EXCEPT ![w] = Idle]
    /\ UNCHANGED <<ai_service, model, tokenizer, pipeline, _ready,
                   executor_shutdown, work_queue, lc, init_future, last_init,
                   last_cleanup, n_init, n_cleanup, between, cleanup_inflight,
                   lifespan, rq>>

\* _generate_text_sync: self.pipeline(...) raises (or self.pipeline /
\* self.tokenizer is missing); logged and re-raised through the with block.
PipelineRaises(w) ==
    /\ worker[w].pc = "pipeline"
    /\ _lock' = ReleaseLock(w, TRUE)
    /\ req' = [req EXCEPT ![worker[w].item].future = "raised"]
    /\ worker' = [worker EXCEPT ![w] = Idle]
    /\ UNCHANGED <<ai_service, model, tokenizer, pipeline, _ready,
                   executor_shutdown, work_queue, lc, init_future, last_init,
                   last_cleanup, n_init, n_cleanup, between, cleanup_inflight,
                   lifespan, rq>>

\* ------------------------------------------------ the event loop: requests
\* loop.run_in_executor(self.executor, self._generate_text_sync, ...) for
\* request r: ThreadPoolExecutor.submit raises RuntimeError once the
\* executor is shut down, otherwise the call is queued and awaited.
Dispatch(r, e) ==
    IF executor_shutdown
    THEN /\ req' = [req EXCEPT ![r] =
                      [st |-> "done", entry |-> e, future |-> "none",
                       outcome |-> Outcome(e, "raised"),
                       after_failure |-> SomeFailure]]
         /\ UNCHANGED work_queue
    ELSE /\ req' = [req EXCEPT ![r] =
                      [st |-> "awaiting", entry |-> e, future |-> "pending",
                       outcome |-> "none", after_failure |-> SomeFailure]]
         /\ work_queue' = Append(work_queue, r)

\* A request ends at once with outcome o, nothing dispatched.
Reject(r, e, o) ==
    /\ req' = [req EXCEPT ![r] =
                 [st |-> "done", entry |-> e, future |-> "none",
                  outcome |-> o, after_failure |-> FALSE]]
    /\ UNCHANGED work_queue

\* POST /api/generate with a validated body, up to the handler's first
\* suspension: get_ai_service, the is_ready() check of generate_content, and
\* generate_text up to its await (its own is_ready() check, the dispatch).
\* An exception other than HTTPException raised inside the handler's try
\* block takes the `except Exception` path.
\* (Variant: the handler without its own is_ready() check, so that the
\* RuntimeError of generate_text reaches `except Exception`.)
generate_content_no_ready_check(r) ==
    IF ~ai_service THEN Reject(r, "route", "503")
    ELSE IF is_ready # "True"
         THEN Reject(r, "route", generate_content_respond("raised"))
    ELSE Dispatch(r, "route")

generate_content(r) ==
    IF ~ai_service THEN Reject(r, "route", "503")
    ELSE IF is_ready = "False" THEN Reject(r, "route", "503")
    ELSE IF is_ready = "AttributeError"
         THEN Reject(r, "route", generate_content_respond("raised"))
    ELSE Dispatch(r, "route")

\* AIService.generate_text called directly, up to its await.
generate_text(r) ==
    IF is_ready = "False" THEN Reject(r, "facade", "NotReadyError")
    ELSE IF is_ready = "AttributeError"
         THEN Reject(r, "facade", "AttributeError")
    ELSE Dispatch(r, "facade")

\* Requests are numbered in the order they arrive.
NextRequest(r) ==
    /\ req[r].st = "new"
    /\ \A q \in Requests : q < r => req[q].st # "new"

RouteRequest(r) ==
    /\ lifespan \in {"off", "serving"}
    /\ LoopFree
    /\ NextRequest(r)
    /\ generate_content(r)
    /\ UNCHANGED <<ai_service, model, tokenizer, pipeline, _ready,
                   executor_shutdown, _lock, worker, lc, init_future,
                   last_init, last_cleanup, n_init, n_cleanup, between,
                   cleanup_inflight, lifespan, rq>>

FacadeRequest(r) ==
    /\ lifespan = "off"
    /\ LoopFree
    /\ ai_service
    /\ NextRequest(r)
    /\ generate_text(r)
    /\ UNCHANGED <<ai_service, model, tokenizer, pipeline, _ready,
                   executor_shutdown, _lock, worker, lc, init_future,
                   last_init, last_cleanup, n_init, n_cleanup, between,
                   cleanup_inflight, lifespan, rq>>

\* The awaited future of request r is done and the loop resumes the
\* coroutine: generate_text returns its result dict or re-raises, and a
\* route handler builds its response.
Resume(r) ==
    /\ LoopFree
    /\ req[r].st = "awaiting"
    /\ req[r].future \in {"ok", "raised"}
    /\ req' = [req EXCEPT ![r].st = "done",
                          ![r].outcome = Outcome(req[r].entry, req[r].future)]
    /\ UNCHANGED <<ai_service, model, tokenizer, pipeline, _ready,
                   executor_shutdown, work_queue, _lock, worker, lc,
                   init_future, last_init, last_cleanup, n_init, n_cleanup,
                   between, cleanup_inflight, lifespan, rq>>

\* ----------------------------------------------- the event loop: lifecycle
\* AIService(): __init__ leaves the fields as in SvcInit.
Construct ==
    /\ lifespan = "off"
    /\ ~ai_service
    /\ ai_service' = TRUE
    /\ UNCHANGED <<model, tokenizer, pipeline, _ready, executor_shutdown,
                   work_queue, _lock, worker, lc, init_future, req, last_init,
                   last_cleanup, n_init, n_cleanup, between, cleanup_inflight,
                   lifespan, rq>>

\* initialize() up to its await: run_in_executor(self.executor,
\* self._load_model) raises RuntimeError (logged, re-raised) on an executor
\* that was shut down, otherwise _load_model is queued.
initialize_call ==
    /\ n_init' = n_init + 1
    /\ IF executor_shutdown
       THEN /\ last_init' = "submit_raised"
            /\ UNCHANGED <<work_queue, init_future, lc>>
       ELSE /\ work_queue' = Append(work_queue, 0)
            /\ init_future' = "pending"
            /\ lc' = "initialize"
            /\ UNCHANGED last_init
    /\ UNCHANGED <<model, tokenizer, pipeline, _ready, executor_shutdown,
                   _lock, worker, req, last_cleanup, n_cleanup, between,
                   cleanup_inflight, rq>>

\* initialize(): `self._ready = True` is reached only when the awaited
\* _load_model returned; an exception skips it.
\* (Variant: the flag set whether or not the load raised.)
ready_after_load_unconditional(fut) == TRUE

ready_after_load(fut) == IF fut = "ok" THEN TRUE ELSE _ready

\* initialize() after its await: `self._ready = True` when _load_model
\* returned; when it raised, the exception is logged and re-raised.
initialize_resume ==
    /\ lc = "initialize"
    /\ init_future \in {"ok", "raised"}
    /\ lc' = "idle"
    /\ init_future' = "none"
    /\ _ready' = ready_after_load(init_future)
    /\ IF init_future = "ok"
       THEN /\ last_init' = "ok"
            /\ between' = TRUE
       ELSE /\ last_init' = "load_raised"
            /\ UNCHANGED between
    /\ UNCHANGED <<ai_service, model, tokenizer, pipeline, executor_shutdown,
                   work_queue, _lock, worker, req, last_cleanup, n_init,
                   n_cleanup, cleanup_inflight, rq>>

\* cleanup() up to the point where executor.shutdown(wait=True) blocks the
\* loop thread: the executor takes no new work.
cleanup_call ==
    /\ n_cleanup' = n_cleanup + 1
    /\ executor_shutdown' = TRUE
    /\ lc' = "cleanup"
    /\ cleanup_inflight' = \/ \E i \in 1..Len(work_queue) : work_queue[i] # 0
                           \/ \E w \in Workers :
                                  worker[w].pc \in {"acquire", "pipeline"}
    /\ UNCHANGED <<ai_service, model, tokenizer, pipeline, _ready, work_queue,
                   _lock, worker, init_future, req, last_init, last_cleanup,
                   n_init, between, rq>>

\* shutdown(wait=True) returns: every queued work item has run and the
\* worker threads have exited.
\* (Variant: shutdown(wait=False), which returns at once.)
ShutdownReturns_nowait == TRUE

ShutdownReturns ==
    /\ work_queue = <<>>
    /\ \A w \in Workers : worker[w].pc = "idle"

\* `if self.x: del self.x` on one attribute.
Del(x) == IF x = "loaded" THEN "deleted" ELSE x

\* `if self.x:` raises AttributeError when the attribute was deleted, and
\* only then: None is falsy and a loaded object is truthy.
\* (Variant: an unguarded use of the attribute, which faults on None too.)
ReadFaults_on_none(x) == x # "loaded"

ReadFaults(x) == x = "deleted"

\* `self._ready = False`, the last assignment of cleanup().
\* (Variant: cleanup() without that assignment.)
ready_after_cleanup_kept == _ready

ready_after_cleanup == FALSE

\* The rest of cleanup(): the three `if self.x: del self.x` in order, then
\* `self._ready = False`.  Reading an attribute that an earlier cleanup()
\* deleted raises AttributeError, which ends the call there.
cleanup_release ==
    /\ lc = "cleanup"
    /\ ShutdownReturns
    /\ lc' = "idle"
    /\ IF ReadFaults(model)
       THEN /\ last_cleanup' = "AttributeError"
            /\ UNCHANGED <<model, tokenizer, pipeline, _ready, between>>
       ELSE IF ReadFaults(tokenizer)
       THEN /\ model' = Del(model)
            /\ last_cleanup' = "AttributeError"
            /\ UNCHANGED <<tokenizer, pipeline, _ready, between>>
       ELSE IF ReadFaults(pipeline)
       THEN /\ model' = Del(model)
            /\ tokenizer' = Del(tokenizer)
            /\ last_cleanup' = "AttributeError"
            /\ UNCHANGED <<pipeline, _ready, between>>
       ELSE /\ model' = Del(model)
            /\ tokenizer' = Del(tokenizer)
            /\ pipeline' = Del(pipeline)
            /\ _ready' = ready_after_cleanup
            /\ last_cleanup' = "ok"
            /\ between' = FALSE
    /\ UNCHANGED <<ai_service, executor_shutdown, work_queue, _lock, worker,
                   init_future, req, last_init, n_init, n_cleanup,
                   cleanup_inflight, rq>>

\* The caller of Spec: initialize() and cleanup() on the constructed
\* service, one call at a time, in any order.
Initialize ==
    /\ lifespan = "off"
    /\ ai_service
    /\ lc = "idle"
    /\ n_init < MaxInitialize
    /\ initialize_call
    /\ UNCHANGED <<ai_service, lifespan>>

InitializeResume ==
    /\ lifespan = "off"
    /\ initialize_resume
    /\ UNCHANGED lifespan

Cleanup ==
    /\ lifespan = "off"
    /\ ai_service
    /\ lc = "idle"
    /\ n_cleanup < MaxCleanup
    /\ cleanup_call
    /\ UNCHANGED lifespan

CleanupRelease ==
    /\ lifespan = "off"
    /\ cleanup_release
    /\ UNCHANGED lifespan

Next ==
    \/ Construct
    \/ Initialize
    \/ InitializeResume
    \/ Cleanup
    \/ CleanupRelease
    \/ \E r \in Requests : RouteRequest(r)
    \/ \E r \in Requests : FacadeRequest(r)
    \/ \E r \in Requests : Resume(r)
    \/ \E w \in Workers : WorkerDequeue(w)
    \/ \E w \in Workers : LoadTokenizer(w)
    \/ \E w \in Workers : LoadModel(w)
    \/ \E w \in Workers : CreatePipeline(w)
    \/ \E w \in Workers : LoadRaises(w)
    \/ \E w \in Workers : AcquireLock(w)
    \/ \E w \in Workers : PipelineReturns(w)
    \/ \E w \in Workers : PipelineRaises(w)

Spec == Init /\ [][Next]_vars

\* ------------------------------------------------------------ main.lifespan
\* The application under its lifespan: the service is constructed and
\* initialized at startup, requests are served once startup is over, and
\* cleanup() runs at shutdown.  When initialize() raises, lifespan logs and
\* re-raises: the application does not start, and the code after `yield`
\* never runs.
LifespanInit ==
    /\ SvcInit
    /\ lifespan = "not_started"
    /\ rq = NoRequest

\* `ai_service = AIService()` and `await ai_service.initialize()` up to the
\* await inside initialize().
LifespanStartup ==
    /\ lifespan = "not_started"
    /\ ai_service' = TRUE
    /\ initialize_call
    /\ lifespan' = "starting"

\* initialize() returns or raises into lifespan.
LifespanStarted ==
    /\ lifespan = "starting"
    /\ initialize_resume
    /\ lifespan' = IF init_future = "ok" THEN "serving" ELSE "startup_failed"

\* After `yield`: `if ai_service: await ai_service.cleanup()`.
LifespanShutdown ==
    /\ lifespan = "serving"
    /\ lc = "idle"
    /\ ai_service
    /\ cleanup_call
    /\ lifespan' = "shutting_down"

LifespanStopped ==
    /\ lifespan = "shutting_down"
    /\ cleanup_release
    /\ lifespan' = "stopped"

LifespanNext ==
    \/ LifespanStartup
    \/ LifespanStarted
    \/ LifespanShutdown
    \/ LifespanStopped
    \/ \E r \in Requests : RouteRequest(r)
    \/ \E r \in Requests : Resume(r)
    \/ \E w \in Workers : WorkerDequeue(w)
    \/ \E w \in Workers : LoadTokenizer(w)
    \/ \E w \in Workers : LoadModel(w)
    \/ \E w \in Workers : CreatePipeline(w)
    \/ \E w \in Workers : LoadRaises(w)
    \/ \E w \in Workers : AcquireLock(w)
    \/ \E w \in Workers : PipelineReturns(w)
    \/ \E w \in Workers : PipelineRaises(w)

LifespanSpec == LifespanInit /\ [][LifespanNext]_vars

\* Scheduling: a worker thread that can take a work item or the free lock
\* does so, a pipeline call returns or raises, the event loop resumes a
\* coroutine whose future is done, and shutdown(wait=True) returns once the
\* workers are through.  Nothing is assumed about the load.
LifespanFairness ==
    /\ \A w \in Workers :
           /\ WF_vars(WorkerDequeue(w))
           /\ WF_vars(AcquireLock(w))
           /\ WF_vars(PipelineReturns(w) \/ PipelineRaises(w))
    /\ \A r \in Requests : WF_vars(Resume(r))
    /\ WF_vars(LifespanStopped)

LifespanFairSpec == LifespanSpec /\ LifespanFairness

\* ------------------------------------------------------- health endpoints
\* What a health request answers in the current state: the handlers read
\* the service and change nothing.
\* GET /api/health: the get_ai_service dependency raises 503 when
\* request.state.ai_service is None, before health_check runs; otherwise
\* model_loaded = ai_service.is_ready().
api_health ==
    IF ~ai_service THEN [status |-> "503", model_loaded |-> FALSE]
    ELSE IF is_ready = "AttributeError"
         THEN [status |-> "500", model_loaded |-> FALSE]
    ELSE [status |-> "200", model_loaded |-> is_ready = "True"]

\* GET /health: model_loaded = ai_service is not None and
\* ai_service.is_ready().
main_health ==
    IF ~ai_service THEN [status |-> "200", model_loaded |-> FALSE]
    ELSE IF is_ready = "AttributeError"
         THEN [status |-> "500", model_loaded |-> FALSE]
    ELSE [status |-> "200", model_loaded |-> is_ready = "True"]

\* ------------------------------------------- one request, field by field
\* Floats are held in hundredths: temperature 0.7 is 70, top_p 1.0 is 100.
settings_max_length == 512
settings_temperature == 70
settings_top_p == 90

max_length_ge == 50
max_length_le == 1000
temperature_ge == 10
temperature_le == 200
top_p_ge == 10
top_p_le == 100

\* An Optional[...] request field: omitted (None) or a number.
None == [given |-> FALSE, v |-> 0]
Some(x) == [given |-> TRUE, v |-> x]

\* The values a caller may put in the body: omitted, zero, just outside and
\* just inside each end of the declared range, and one in the middle.
MaxLengthInputs == {None} \cup {Some(x) : x \in {0, 49, 50, 300, 1000, 1001}}
TemperatureInputs == {None} \cup {Some(x) : x \in {0, 9, 10, 150, 200, 201}}
TopPInputs == {None} \cup {Some(x) : x \in {0, 9, 10, 50, 100, 101}}

\* Field(default=None, ge=lo, le=hi) on an Optional field: None passes, a
\* number must lie in [lo, hi].
\* (Variant: the field declared without ge/le.)
FieldValid_unbounded(o, lo, hi) == TRUE

FieldValid(o, lo, hi) == ~o.given \/ (lo <= o.v /\ o.v <= hi)

\* ---- prompt: str = Field(..., min_length=1, max_length=1000)
prompt_min_length == 1
prompt_max_length == 1000

\* Prompts are sequences of characters over a blank and a letter.
Whitespace == {" "}
Chars == Whitespace \cup {"a"}

RECURSIVE lstrip(_)
lstrip(v) ==
    IF v # <<>> /\ Head(v) \in Whitespace THEN lstrip(Tail(v)) ELSE v

RECURSIVE rstrip(_)
rstrip(v) ==
    IF v # <<>> /\ v[Len(v)] \in Whitespace
    THEN rstrip(SubSeq(v, 1, Len(v) - 1))
    ELSE v

\* str.strip(): leading and trailing whitespace removed.
strip(v) == rstrip(lstrip(v))

PromptInputs == UNION {[1..n -> Chars] : n \in 0..MaxPromptLen}

\* The length constraints of the field, then the raising half of
\* validate_prompt: `if not v.strip(): raise ValueError`.
PromptValid(v) ==
    /\ prompt_min_length <= Len(v)
    /\ Len(v) <= prompt_max_length
    /\ strip(v) # <<>>

\* The returning half of validate_prompt: `return v.strip()`.
\* (Variant: `return v`.)
validate_prompt_unstripped(v) == v

validate_prompt(v) == strip(v)

\* ---- content_type: Optional[ContentType] = ContentType.EXPLANATION
ContentType ==
    {"explanation", "summary", "quiz", "lesson", "example", "definition"}

\* What a body may carry for content_type: nothing, null, one of the six
\* values, or any other string.
ContentTypeInputs == ContentType \cup {"omitted", "null", "poem"}

\* An enum field accepts the enum's values; Optional admits null.
ContentTypeValid(c) == c \in ContentType \cup {"omitted", "null"}

\* The validated field: the default when omitted, None for null.
validate_content_type(c) ==
    IF c = "omitted" THEN "explanation"
    ELSE IF c = "null" THEN "None"
    ELSE c

\* type_instructions of _enhance_prompt_by_type, each text by its opening
\* words.
\* (Variant: the dict without its QUIZ entry.)
type_instructions_without_quiz ==
    [c \in ContentType \ {"quiz"} |->
        CASE c = "explanation" -> "Provide a clear, detailed explanation"
          [] c = "summary" -> "Create a concise summary"
          [] c = "lesson" -> "Create a structured lesson plan"
          [] c = "example" -> "Provide practical examples"
          [] c = "definition" -> "Provide a clear definition"]

type_instructions ==
    [c \in ContentType |->
        CASE c = "explanation" -> "Provide a clear, detailed explanation"
          [] c = "summary" -> "Create a concise summary"
          [] c = "quiz" -> "Generate quiz questions and answers"
          [] c = "lesson" -> "Create a structured lesson plan"
          [] c = "example" -> "Provide practical examples"
          [] c = "definition" -> "Provide a clear definition"]

\* _enhance_prompt_by_type: f"{instruction}\n\n{prompt}", with
\* type_instructions.get(content_type, type_instructions[EXPLANATION]).
\* The instruction is one element of the sequence, each "\n" one more.
enhance_prompt_by_type(prompt, content_type) ==
    LET instruction ==
            IF content_type \in DOMAIN type_instructions
            THEN type_instructions[content_type]
            ELSE type_instructions["explanation"]
    IN <<instruction, "\n", "\n">> \o prompt

\* GenerateRequest validation.
GenerateRequestValid(r) ==
    /\ PromptValid(r.prompt)
    /\ ContentTypeValid(r.content_type)
    /\ FieldValid(r.max_length, max_length_ge, max_length_le)
    /\ FieldValid(r.temperature, temperature_ge, temperature_le)
    /\ FieldValid(r.top_p, top_p_ge, top_p_le)

\* Python's `x or d`: d when x is None or zero, else x.
Or(o, d) == IF o.given /\ o.v # 0 THEN o.v ELSE d

\* generate_text, "Set generation parameters".
EffectiveParameters(r) ==
    [max_length |-> Or(r.max_length, settings_max_length),
     temperature |-> Or(r.temperature, settings_temperature),
     top_p |-> Or(r.top_p, settings_top_p)]

NoParameters == [max_length |-> 0, temperature |-> 0, top_p |-> 0]

\* A service that main.lifespan has started and that is idle.
SvcReady ==
    /\ ai_service = TRUE
    /\ model = "loaded"
    /\ tokenizer = "loaded"
    /\ pipeline = "loaded"
    /\ _ready = TRUE
    /\ executor_shutdown = FALSE
    /\ work_queue = <<>>
    /\ _lock = 0
    /\ worker = [w \in Workers |-> Idle]
    /\ lc = "idle"
    /\ init_future = "none"
    /\ req = [r \in Requests |-> NewRequest]
    /\ last_init = "ok"
    /\ last_cleanup = "none"
    /\ n_init = 1
    /\ n_cleanup = 0
    /\ between = TRUE
    /\ cleanup_inflight = FALSE

\* No response built yet, or none returned.
NoResponse == [kind |-> "none", prompt |-> <<>>, content_type |-> "none"]

RequestInit ==
    /\ SvcReady
    /\ lifespan = "serving"
    /\ rq \in [pc : {"received"},
               prompt : PromptInputs,
               content_type : ContentTypeInputs,
               max_length : MaxLengthInputs,
               temperature : TemperatureInputs,
               top_p : TopPInputs,
               request_prompt : {<<>>},
               request_content_type : {"none"},
               facade_prompt : {<<>>},
               parameters : {NoParameters},
               response : {NoResponse}]

\* FastAPI validates the body against GenerateRequest before the handler
\* runs; an invalid body is answered 422.
ValidateRequest ==
    /\ rq.pc = "received"
    /\ IF GenerateRequestValid(rq)
       THEN rq' = [rq EXCEPT
                     !.pc = "validated",
                     !.request_prompt = validate_prompt(rq.prompt),
                     !.request_content_type =
                         validate_content_type(rq.content_type)]
       ELSE rq' = [rq EXCEPT !.pc = "422"]
    /\ UNCHANGED <<svc_vars, lifespan>>

\* generate_content calls generate_text on the ready service with the
\* enhanced prompt; generate_text resolves the parameters and awaits the
\* worker.
ResolveParameters ==
    /\ rq.pc = "validated"
    /\ is_ready = "True"
    /\ rq' = [rq EXCEPT
                !.pc = "awaiting",
                !.facade_prompt =
                    enhance_prompt_by_type(rq.request_prompt,
                                           rq.request_content_type),
                !.parameters = EffectiveParameters(rq)]
    /\ UNCHANGED <<svc_vars, lifespan>>

\* The pipeline returned: generate_text returns its result dict, which
\* carries the parameters.
ReturnResult ==
    /\ rq.pc = "awaiting"
    /\ rq' = [rq EXCEPT !.pc = "result"]
    /\ UNCHANGED <<svc_vars, lifespan>>

\* The pipeline raised: generate_text re-raises, there is no result dict.
RaiseFailure ==
    /\ rq.pc = "awaiting"
    /\ rq' = [rq EXCEPT !.pc = "raised", !.parameters = NoParameters]
    /\ UNCHANGED <<svc_vars, lifespan>>

\* generate_content after the await: GenerateResponse(success=True, ...,
\* prompt=request.prompt, content_type=request.content_type, ...) or, in
\* `except Exception`, GenerateResponse(success=False, ...) with the same
\* prompt and content_type; a ValidationError of the second constructor
\* leaves the handler and nothing is returned.
Respond ==
    /\ rq.pc \in {"result", "raised"}
    /\ LET kind == generate_content_respond(IF rq.pc = "result" THEN "ok"
                                            ELSE "raised")
       IN rq' = [rq EXCEPT
                   !.pc = "responded",
                   !.response =
                       IF kind \in {"success", "failure"}
                       THEN [kind |-> kind,
                             prompt |-> rq.request_prompt,
                             content_type |-> rq.request_content_type]
                       ELSE [NoResponse EXCEPT !.kind = kind]]
    /\ UNCHANGED <<svc_vars, lifespan>>

RequestNext ==
    \/ ValidateRequest
    \/ ResolveParameters
    \/ ReturnResult
    \/ RaiseFailure
    \/ Respond

RequestSpec == RequestInit /\ [][RequestNext]_vars

\* ================================================================== claims
\* Generation calls that are queued, waiting for the lock or in the pipeline.
InPipeline == {w \in Workers : worker[w].pc = "pipeline"}

Drained ==
    /\ work_queue = <<>>
    /\ \A w \in Workers : worker[w].pc = "idle"
    /\ \A r \in Requests : req[r].future # "pending"

Released == "deleted" \in {model, tokenizer, pipeline}

\* C1: with any number of generation calls dispatched to the two workers, at
\* most one worker is inside the pipeline call of _generate_text_sync at a
\* time, and that worker holds the lock.
C1_OneWorkerInPipeline ==
    /\ Cardinality(InPipeline) <= 1
    /\ \A w \in InPipeline : _lock = w

\* Three calls in flight at once: one in the pipeline, one blocked on the
\* lock, one still queued behind the two workers.
C1_Witness ==
    /\ \E w \in Workers : worker[w].pc = "pipeline"
    /\ \E w \in Workers : worker[w].pc = "acquire"
    /\ work_queue # <<>>

\* C2: is_ready() returns (never raises); it returns True only while a
\* successful initialize() has completed and no cleanup() has completed
\* since, and False in every other state.
C2_ReadyOnlyBetween ==
    /\ is_ready \in {"True", "False"}
    /\ is_ready = "True" => between
    /\ ~between => is_ready = "False"

\* initialize() succeeded, requests ran, cleanup() completed: not ready.
C2_Witness ==
    /\ last_init = "ok"
    /\ last_cleanup = "ok"
    /\ lc = "idle"
    /\ pipeline = "deleted"
    /\ is_ready = "False"

\* C3: a generation request that arrives while the service is not ready (no
\* service object, never initialized, initialize() failed or still loading,
\* or after cleanup()) ends at once with the unavailable signal, 503 at the
\* route and the not-ready error at the facade, and nothing is dispatched to
\* the worker pool.
C3_NotReadyUnavailable ==
    [][\A r \in Requests :
         (req[r].st = "new" /\ req'[r].st # "new" /\ (~ai_service \/ ~between))
         => /\ req'[r].st = "done"
            /\ req'[r].future = "none"
            /\ req'[r].outcome =
                 IF req'[r].entry = "route" THEN "503" ELSE "NotReadyError"
            /\ work_queue' = work_queue]_vars

\* Requests were turned away in three of the not-ready states: before the
\* service object existed, while it was not initialized, and after cleanup.
C3_Witness ==
    /\ req[1].outcome = "503"
    /\ req[2].outcome = "NotReadyError"
    /\ req[3].outcome = "503"
    /\ last_init = "ok"
    /\ last_cleanup = "ok"

\* C4: a route request that reached a ready service ends with a returned
\* GenerateResponse, success=false when generate_text raised; the only
\* fault that leaves the handler is the 503 signal.
C4_FailureIsReturned ==
    \A r \in Requests :
        (req[r].st = "done" /\ req[r].entry = "route")
        => /\ req[r].outcome \in {"503", "success", "failure"}
           /\ req[r].future = "raised" => req[r].outcome = "failure"

\* C5: under main.lifespan, when _load_model raises at any of its steps the
\* error leaves initialize() and the lifespan startup, _ready is not set,
\* is_ready() is False from then on and no load is queued or run again.
C5_FailedStartupStaysNotReady ==
    /\ last_init = "load_raised" => lifespan = "startup_failed"
    /\ lifespan = "startup_failed"
       => /\ ~_ready
          /\ is_ready = "False"
          /\ last_init = "load_raised"
          /\ n_init = 1
          /\ Drained

\* Startup failed at the model step: the tokenizer is loaded, the rest not.
C5_Witness ==
    /\ lifespan = "startup_failed"
    /\ tokenizer = "loaded"
    /\ model = "None"
    /\ pipeline = "None"

\* C6: once cleanup() has released anything, and once it has returned,
\* every generation call dispatched before it has run to completion: none
\* is queued, none is on a worker, no future is pending.
C6_CleanupWaitsForCalls ==
    /\ Released => Drained
    /\ (n_cleanup > 0 /\ lc # "cleanup") => Drained

\* cleanup() was called with calls queued or running, has released the
\* handle, and a caller of one of those calls has yet to be resumed with
\* its result.
C6_Witness ==
    /\ cleanup_inflight
    /\ last_cleanup = "ok"
    /\ pipeline = "deleted"
    /\ \E r \in Requests : req[r].st = "awaiting" /\ req[r].future = "ok"
    /\ \E r \in Requests : req[r].st = "awaiting" /\ req[r].future = "raised"

\* C7: a step in which a generation call fails in the pipeline releases the
\* lock and leaves the ready flag, the resource handle and the executor as
\* they were.
C7_FailureLeavesServiceUsable ==
    [][\A w \in Workers :
         (/\ worker[w].pc = "pipeline"
          /\ worker'[w].pc = "idle"
          /\ req'[worker[w].item].future = "raised")
         => /\ _lock' = 0
            /\ UNCHANGED <<_ready, model, tokenizer, pipeline,
                           executor_shutdown>>]_vars

\* A call dispatched after another call had failed got the lock, ran and
\* returned.
C7_Witness ==
    \E r \in Requests :
        /\ req[r].after_failure
        /\ req[r].future = "ok"
        /\ is_ready = "True"

\* C8: a cleanup() call on a service that no initialize() has brought to
\* ready, with the attributes as __init__ or a failed load left them, ends
\* without a fault and with is_ready() False.
C8_CleanupWithoutReadyIsSafe ==
    [][(lc = "cleanup" /\ lc' = "idle" /\ ~between /\ ~Released)
       => (last_cleanup' = "ok" /\ is_ready' = "False")]_vars

\* cleanup() after a load that failed at the model step: the tokenizer has
\* been released, model and pipeline were never set.
C8_Witness ==
    /\ last_init = "load_raised"
    /\ n_init = 1
    /\ n_cleanup = 1
    /\ last_cleanup = "ok"
    /\ lc = "idle"
    /\ tokenizer = "deleted"
    /\ model = "None"
    /\ pipeline = "None"

\* C9: an initialize() call made after cleanup() has completed is accepted:
\* the load is dispatched to the worker pool.
C9_ReinitializeAfterCleanup ==
    (n_cleanup > 0 /\ last_cleanup = "ok") => last_init # "submit_raised"

\* C10: the parameters echoed in the result of a successful generation lie
\* in the declared ranges, max_length in [50, 1000], temperature in
\* [0.1, 2.0], top_p in [0.1, 1.0]; each is the caller's value when one was
\* supplied and the configured default when it was omitted.
C10_EchoedParametersInBounds ==
    rq.pc = "result"
    => /\ rq.parameters.max_length \in max_length_ge..max_length_le
       /\ rq.parameters.temperature \in temperature_ge..temperature_le
       /\ rq.parameters.top_p \in top_p_ge..top_p_le
       /\ rq.parameters.max_length =
            IF rq.max_length.given THEN rq.max_length.v
            ELSE settings_max_length
       /\ rq.parameters.temperature =
            IF rq.temperature.given THEN rq.temperature.v
            ELSE settings_temperature
       /\ rq.parameters.top_p =
            IF rq.top_p.given THEN rq.top_p.v ELSE settings_top_p

\* A result for a request that supplied temperature at the top of its range
\* and omitted the other two.
C10_Witness ==
    /\ rq.pc = "result"
    /\ rq.max_length = None
    /\ rq.temperature = Some(temperature_le)
    /\ rq.top_p = None
    /\ rq.parameters = [max_length |-> settings_max_length,
                        temperature |-> temperature_le,
                        top_p |-> settings_top_p]

\* The request has been handed to generate_text.
ReachedFacade == rq.pc \in {"awaiting", "result", "raised", "responded"}

\* The part of the prompt given to generate_text that follows the
\* instruction and the two newlines.
UserPrompt == SubSeq(rq.facade_prompt, 4, Len(rq.facade_prompt))

\* C11: a request handled by the ready service is answered, when generation
\* succeeded and when it failed, with a GenerateResponse that echoes the
\* request's trimmed prompt and content type, not the enhanced prompt given
\* to generate_text.
C11_ResponseEchoesRequest ==
    rq.pc = "responded"
    => /\ rq.response.kind \in {"success", "failure"}
       /\ rq.response.prompt = strip(rq.prompt)
       /\ rq.response.prompt # rq.facade_prompt
       /\ rq.response.content_type = validate_content_type(rq.content_type)

\* C12: a prompt that is empty after trimming is rejected at validation and
\* never reaches generate_text; the user prompt inside every prompt that
\* does reach it is the body's prompt trimmed: not empty, no whitespace at
\* either end.
C12_OnlyTrimmedPromptsReachFacade ==
    /\ (rq.pc # "received" /\ strip(rq.prompt) = <<>>) => rq.pc = "422"
    /\ ReachedFacade
       => /\ UserPrompt # <<>>
          /\ Head(UserPrompt) \notin Whitespace
          /\ UserPrompt[Len(UserPrompt)] \notin Whitespace
          /\ UserPrompt = strip(rq.prompt)

\* A prompt with whitespace on both sides has reached generate_text.
C12_Witness ==
    /\ rq.pc = "awaiting"
    /\ rq.prompt = <<" ", "a", " ">>
    /\ UserPrompt = <<"a">>

\* The rest of the body is valid.
OtherwiseValid == GenerateRequestValid([rq EXCEPT !.content_type = "omitted"])

\* The instruction used when the dict has no entry for the content type.
FallbackInstruction == "Provide a clear, detailed explanation"

\* C14 as stated: a request that supplies a content type other than the six
\* recognized ones is not rejected, and is processed with the default
\* (explanation) instruction.
C14_UnrecognizedNotRejected ==
    (/\ rq.pc # "received"
     /\ rq.content_type \notin ContentType \cup {"omitted"}
     /\ OtherwiseValid)
    => /\ rq.pc # "422"
       /\ ReachedFacade => Head(rq.facade_prompt) = FallbackInstruction

\* C14 amended: a content type string outside the six recognized values is
\* rejected at validation; a null content type is accepted and processed
\* with the default (explanation) instruction, as are an omitted one and
\* "explanation"; every entry of the dict is a distinct text, all six types
\* have one, and the fallback text is never used for another recognized
\* type.
C14_FallbackOnlyForNull ==
    /\ DOMAIN type_instructions = ContentType
    /\ \A c, d \in DOMAIN type_instructions :
           c # d => type_instructions[c] # type_instructions[d]
    /\ (rq.pc # "received" /\ ~ContentTypeValid(rq.content_type))
       => rq.pc = "422"
    /\ ReachedFacade
       => IF rq.content_type \in {"null", "omitted", "explanation"}
          THEN Head(rq.facade_prompt) = FallbackInstruction
          ELSE /\ rq.content_type \in ContentType
               /\ Head(rq.facade_prompt) # FallbackInstruction

\* A request with content_type null has been handed to generate_text with
\* the explanation instruction.
C14_Witness ==
    /\ ReachedFacade
    /\ rq.content_type = "null"
    /\ rq.request_content_type = "None"
    /\ Head(rq.facade_prompt) = FallbackInstruction

\* C13: in every state in which the event loop can serve a request, with or
\* without a service object, both health endpoints answer with a health
\* report whose model_loaded is the value of is_ready().
C13_HealthReportsReady ==
    LoopFree
    => /\ api_health = [status |-> "200", model_loaded |-> is_ready = "True"]
       /\ main_health = [status |-> "200", model_loaded |-> is_ready = "True"]

\* C15: a cleanup() call that follows a completed cleanup() ends without a
\* fault and leaves the attributes and the ready flag as the first call
\* left them, with is_ready() False.
C15_SecondCleanupIsNoOp ==
    [][(lc = "cleanup" /\ lc' = "idle" /\ last_cleanup = "ok")
       => /\ last_cleanup' = "ok"
          /\ UNCHANGED <<model, tokenizer, pipeline, _ready>>
          /\ is_ready' = "False"]_vars

\* C16: whenever the ready flag is set, tokenizer, model and pipeline are
\* all present, and a worker inside the pipeline call finds the pipeline and
\* the tokenizer present.
C16_ReadyImpliesWholeHandle ==
    /\ _ready => (model = "loaded" /\ tokenizer = "loaded"
                  /\ pipeline = "loaded")
    /\ \A w \in Workers :
           worker[w].pc = "pipeline"
           => (pipeline = "loaded" /\ tokenizer = "loaded")

\* A second initialize() has failed at loading while the service was ready
\* and a generation call was inside the pipeline.
C16_Witness ==
    /\ _ready
    /\ n_init = 2
    /\ last_init = "load_raised"
    /\ \E w \in Workers : worker[w].pc = "pipeline"

\* C17: under LifespanFairness every generation call dispatched to the pool
\* completes and every awaiting request is answered, with more requests in
\* flight than there are workers.
C17_EveryCallCompletes ==
    \A r \in Requests :
        /\ (req[r].future = "pending") ~> (req[r].future \in {"ok", "raised"})
        /\ (req[r].st = "awaiting") ~> (req[r].st = "done")

\* Every request of the behaviour is awaiting a call that has not completed:
\* one more than the pool has workers.
C17_Witness ==
    /\ Cardinality(Requests) > max_workers
    /\ \A r \in Requests : req[r].st = "awaiting" /\ req[r].future = "pending"
    /\ \A w \in Workers : worker[w].pc \in {"acquire", "pipeline"}

====
